---- MODULE Spec2Model ----
(***************************************************************************)
(* Smart Scheduler: the tool-call dispatch loop of main.py and the         *)
(* calendar tools of calendar_tools.py.                                    *)
(*                                                                         *)
(* Time is counted in minutes from 00:00 of the first modelled date.  A    *)
(* naive datetime is such a number; an aware timestamp, as the calendar    *)
(* API renders it, is a wall-clock number together with its UTC offset.    *)
(***************************************************************************)
EXTENDS Integers, Sequences, FiniteSets, Bags, TLC

VARIABLES
    events,                 \* the calendar store: a bag of events
    calTz,                  \* UTC offset (minutes) at which the store renders timestamps
    pc,                     \* position of main()'s loop
    conversation_history,   \* main.py: conversation_history
    convo,                  \* main.py: the chat session's own history (convo)
    user_input,             \* main.py: user_input
    response_text,          \* main.py: response_text
    function_name,          \* main.py: function_name
    function_args,          \* main.py: function_args
    tool_result,            \* main.py: tool_result
    spoken,                 \* texts handed to speak_response, in order
    turn,                   \* bookkeeping of the utterance being processed
    lastCall,               \* the last direct call of a calendar tool and its result
    booked                  \* the bookings schedule_meeting reported as successful

vars == <<events, calTz, pc, conversation_history, convo, user_input, response_text,
          function_name, function_args, tool_result, spoken, turn, lastCall, booked>>

loopVars == <<pc, conversation_history, convo, user_input, response_text,
              function_name, function_args, tool_result, spoken, turn>>

-----------------------------------------------------------------------------
(* Bounds of the model. *)

MaxBookings == 2
MaxTurns == 2

(* Program constants. *)

OpenHour == 9
CloseHour == 17
StepMinutes == 30
SlotLimit == 6

MinutesPerDay == 24 * 60

Min(a, b) == IF a < b THEN a ELSE b
Max(a, b) == IF a > b THEN a ELSE b

-----------------------------------------------------------------------------
(* Python values as they come out of json.loads.                           *)

PyInt(n)  == [t |-> "int", n |-> n]
PyStr(s)  == [t |-> "str", s |-> s]
PyNone    == [t |-> "null"]
PyDict(f) == [t |-> "dict", d |-> f]

(* The dates and clock times that occur in the model, with their values.   *)
DateTable == [x \in {"2025-06-24", "2025-06-25"} |->
                 IF x = "2025-06-24" THEN 0 ELSE 1]

ClockTable == [x \in {"08:30", "09:30", "14:00", "16:30"} |->
                 CASE x = "08:30" -> 8 * 60 + 30
                   [] x = "09:30" -> 9 * 60 + 30
                   [] x = "14:00" -> 14 * 60
                   [] x = "16:30" -> 16 * 60 + 30]

(* The strings of the form "%Y-%m-%d %H:%M" that occur in the model, split *)
(* at the blank into their date and their clock time.                      *)
StampTable == [x \in {"2025-06-24 08:30", "2025-06-24 14:00",
                      "2025-06-24 16:30", "2025-06-25 09:30"} |->
                 CASE x = "2025-06-24 08:30" -> <<"2025-06-24", "08:30">>
                   [] x = "2025-06-24 14:00" -> <<"2025-06-24", "14:00">>
                   [] x = "2025-06-24 16:30" -> <<"2025-06-24", "16:30">>
                   [] x = "2025-06-25 09:30" -> <<"2025-06-25", "09:30">>]

(* datetime.strptime(v, "%Y-%m-%d"): a TypeError for a non-string, a       *)
(* ValueError for a string of another form, else the day.                  *)
StrptimeDate(v) ==
    IF v.t # "str" THEN [ok |-> FALSE, exc |-> "TypeError", day |-> 0]
    ELSE IF v.s \in DOMAIN DateTable
         THEN [ok |-> TRUE, exc |-> "", day |-> DateTable[v.s]]
         ELSE [ok |-> FALSE, exc |-> "ValueError", day |-> 0]

(* datetime.strptime(v, "%Y-%m-%d %H:%M"): the naive datetime.             *)
StrptimeDateTime(v) ==
    IF v.t # "str" THEN [ok |-> FALSE, exc |-> "TypeError", dt |-> 0]
    ELSE IF v.s \in DOMAIN StampTable
         THEN [ok |-> TRUE, exc |-> "",
               dt |-> DateTable[StampTable[v.s][1]] * MinutesPerDay
                          + ClockTable[StampTable[v.s][2]]]
         ELSE [ok |-> FALSE, exc |-> "ValueError", dt |-> 0]

(* slot_start.strftime of the three formats of an available slot.          *)
FormatSlot(slot_start) ==
    LET day == slot_start \div MinutesPerDay
        hh  == (slot_start % MinutesPerDay) \div 60
        mm  == slot_start % 60
        h12 == IF hh % 12 = 0 THEN 12 ELSE hh % 12
    IN  [time     |-> <<h12, mm, IF hh < 12 THEN "AM" ELSE "PM">>,
         time_24h |-> <<hh, mm>>,
         datetime |-> <<day, hh, mm>>]

-----------------------------------------------------------------------------
(* The calendar store (Google Calendar "primary"), reached through         *)
(* service.events().  An event holds the instants of its start and end in  *)
(* UTC minutes; an all-day event has timed = FALSE and carries no          *)
(* dateTime; iso = FALSE marks a dateTime that fromisoformat rejects.      *)

Event(summary, start, end) ==
    [summary |-> summary, start |-> start, end |-> end, timed |-> TRUE, iso |-> TRUE]

(* events().list(timeMin, timeMax, singleEvents, orderBy).execute():       *)
(* the events that end after timeMin and start before timeMax, both read   *)
(* as UTC (the "Z" the code appends).                                      *)
ListEvents(store, time_min, time_max) ==
    {e \in BagToSet(store) : e.end > time_min /\ e.start < time_max}

(* event["start"].get("dateTime"): the instant rendered at the store's     *)
(* offset, or None for an all-day event.                                   *)
DateTimeOf(e, instant, tz) ==
    IF e.timed THEN [some |-> TRUE, wall |-> instant + tz, off |-> tz, iso |-> e.iso]
    ELSE [some |-> FALSE, wall |-> 0, off |-> 0, iso |-> TRUE]

(* fromisoformat(...).replace(tzinfo=None): the wall-clock reading of the  *)
(* timestamp; the offset is dropped, not applied.                          *)
StripTz(ts) == ts.wall

(* The events with a start and an end dateTime.                            *)
TimedItems(items) == {e \in items : e.timed}

(* busy_slots: one (start, end) pair per timed event.                      *)
BusySlots(items, tz) ==
    {<<StripTz(DateTimeOf(e, e.start, tz)), StripTz(DateTimeOf(e, e.end, tz))>> :
        e \in TimedItems(items)}

-----------------------------------------------------------------------------
(* What the environment decides in one tool call: whether                  *)
(* get_calendar_service() returns a service (auth) and whether the         *)
(* request's execute() returns (api) or raises.                            *)
Envs == {[auth |-> TRUE, api |-> TRUE],
         [auth |-> FALSE, api |-> TRUE],
         [auth |-> TRUE, api |-> FALSE]}

(* json.dumps({"status": "error", "message": str(e)}) *)
ErrorResult(msg) == [status |-> "error", message |-> msg]

(* The outcome of a tool function: the JSON it returns, the store after    *)
(* it, the requests it made and, for a query that got that far, the busy   *)
(* slots it scanned against.                                               *)
Outcome(result, store, calls, busy) ==
    [result |-> result, store |-> store, calls |-> calls, busy |-> busy]

-----------------------------------------------------------------------------
(* find_available_slots *)

(* time_min and time_max of the day: 9 AM and 5 PM. *)
TimeMin(day) == day * MinutesPerDay + OpenHour * 60
TimeMax(day) == day * MinutesPerDay + CloseHour * 60

(* An overlap test that only asks whether the slot starts inside the busy  *)
(* interval.                                                               *)
OverlapsStartOnly(slot_start, slot_end, busy_start, busy_end) ==
    busy_start <= slot_start /\ slot_start < busy_end

(* The overlap test of the scan. *)
Overlaps(slot_start, slot_end, busy_start, busy_end) ==
    Max(slot_start, busy_start) < Min(slot_end, busy_end)

(* is_free after the loop over busy_slots. *)
IsFree(slot_start, slot_end, busy_slots) ==
    \A b \in busy_slots : ~Overlaps(slot_start, slot_end, b[1], b[2])

(* A cursor that advances by an hour. *)
NextSlotStartHourly(slot_start) == slot_start + 2 * StepMinutes

(* The advance of the cursor: slot_start += timedelta(minutes=30). *)
NextSlotStart(slot_start) == slot_start + StepMinutes

(* A loop condition that stops one position early. *)
FitsWindowStrict(slot_start, duration, time_max) ==
    slot_start + duration < time_max

(* The condition of the while loop. *)
FitsWindow(slot_start, duration, time_max) ==
    slot_start + duration <= time_max

(* The while loop: available_slots as naive datetimes, in scan order. *)
RECURSIVE ScanSlots(_, _, _, _, _)
ScanSlots(slot_start, duration, time_max, busy_slots, available_slots) ==
    IF FitsWindow(slot_start, duration, time_max)
    THEN ScanSlots(NextSlotStart(slot_start), duration, time_max, busy_slots,
                   IF IsFree(slot_start, slot_start + duration, busy_slots)
                   THEN Append(available_slots, slot_start)
                   ELSE available_slots)
    ELSE available_slots

(* A result that returns every free position. *)
LimitSlotsAll(available_slots) == available_slots

(* A result that reports an empty scan as a success without candidates. *)
SlotsResultNoEmptyCase(available_slots, duration_minutes, date_str) ==
    [status |-> "success", date |-> date_str,
     duration_minutes |-> duration_minutes,
     available_slots |->
         [i \in 1..Min(SlotLimit, Len(available_slots)) |->
             FormatSlot(available_slots[i])]]

(* available_slots[:6] *)
LimitSlots(available_slots) ==
    SubSeq(available_slots, 1, Min(SlotLimit, Len(available_slots)))

(* The JSON of the scan's outcome. *)
SlotsResult(available_slots, duration_minutes, date_str) ==
    IF available_slots = <<>>
    THEN [status |-> "no_slots", duration_minutes |-> duration_minutes,
          date |-> date_str]
    ELSE [status |-> "success", date |-> date_str,
          duration_minutes |-> duration_minutes,
          available_slots |->
              [i \in 1..Len(LimitSlots(available_slots)) |->
                  FormatSlot(LimitSlots(available_slots)[i])]]

find_available_slots(duration_minutes, date_str, store, tz, env) ==
    LET day    == StrptimeDate(date_str)
        items  == ListEvents(store, TimeMin(day.day), TimeMax(day.day))
        busy   == BusySlots(items, tz)
    IN  IF ~env.auth
        THEN Outcome(ErrorResult("credentials"), store, <<"service">>, {})
        ELSE IF ~day.ok
        THEN Outcome(ErrorResult(day.exc), store, <<"service">>, {})
        ELSE IF ~env.api
        THEN Outcome(ErrorResult("HttpError"), store, <<"service", "list">>, {})
        ELSE IF \E e \in TimedItems(items) : ~e.iso
        THEN Outcome(ErrorResult("ValueError"), store, <<"service", "list">>, {})
        ELSE IF duration_minutes.t # "int"
        THEN Outcome(ErrorResult("TypeError"), store, <<"service", "list">>, busy)
        ELSE Outcome(SlotsResult(ScanSlots(TimeMin(day.day), duration_minutes.n,
                                           TimeMax(day.day), busy, <<>>),
                                 duration_minutes, date_str),
                     store, <<"service", "list">>, busy)

-----------------------------------------------------------------------------
(* schedule_meeting *)

(* An insert that replaces the calendar's events by the new one. *)
InsertEventReplacing(store, title, description, start_dt, end_dt) ==
    SetToBag({Event(title, start_dt, end_dt)})

(* events().insert(calendarId='primary', body=event): the body's naive     *)
(* dateTime values are instants of the time zone it names, UTC.            *)
InsertEvent(store, title, description, start_dt, end_dt) ==
    store (+) SetToBag({Event(title, start_dt, end_dt)})

schedule_meeting(title, duration_minutes, start_datetime, description, store, tz, env) ==
    LET start  == StrptimeDateTime(start_datetime)
        end_dt == start.dt + duration_minutes.n
    IN  IF ~env.auth
        THEN Outcome(ErrorResult("credentials"), store, <<"service">>, {})
        ELSE IF ~start.ok
        THEN Outcome(ErrorResult(start.exc), store, <<"service">>, {})
        ELSE IF duration_minutes.t # "int"
        THEN Outcome(ErrorResult("TypeError"), store, <<"service">>, {})
        ELSE IF ~env.api
        THEN Outcome(ErrorResult("HttpError"), store, <<"service", "insert">>, {})
        ELSE Outcome([status |-> "success",
                      details |-> [title |-> title,
                                   start_time |-> FormatSlot(start.dt).datetime,
                                   end_time |-> FormatSlot(end_dt).datetime,
                                   duration |-> duration_minutes]],
                     InsertEvent(store, title, description, start.dt, end_dt),
                     <<"service", "insert">>, {})

-----------------------------------------------------------------------------
(* The calendar tools called directly, on calendars and arguments drawn    *)
(* from bounded sets.                                                      *)

Day0 == DateTable["2025-06-24"]

At(day, hh, mm) == day * MinutesPerDay + hh * 60 + mm

AllDay(summary, day) ==
    [summary |-> summary, start |-> At(day, 0, 0), end |-> At(day + 1, 0, 0),
     timed |-> FALSE, iso |-> TRUE]

BadStamp(summary, start, end) ==
    [summary |-> summary, start |-> start, end |-> end, timed |-> TRUE, iso |-> FALSE]

(* The calendars a session may start from. *)
InitialCalendars ==
    { {},
      {Event(PyStr("Offsite"), At(Day0, 7, 0), At(Day0, 18, 0))},
      {Event(PyStr("Morning"), At(Day0, 8, 0), At(Day0, 13, 0)),
       Event(PyStr("Afternoon"), At(Day0, 13, 0), At(Day0, 18, 0))},
      {Event(PyStr("Standup"), At(Day0, 9, 15), At(Day0, 9, 45)),
       Event(PyStr("Review"), At(Day0, 10, 0), At(Day0, 11, 0))},
      {Event(PyStr("Lunch"), At(Day0, 12, 0), At(Day0, 13, 0)),
       AllDay(PyStr("Holiday"), Day0)},
      {Event(PyStr("Block"), At(Day0, 9, 0), At(Day0, 16, 0)),
       Event(PyStr("Review"), At(Day0, 10, 0), At(Day0, 11, 0))},
      {BadStamp(PyStr("Imported"), At(Day0, 10, 0), At(Day0, 11, 0))} }

(* The offsets at which a calendar may render its timestamps. *)
TzOffsets == {0, 60}

FindDurations == {PyInt(0 - 30), PyInt(0), PyInt(30), PyInt(45), PyInt(60),
                  PyInt(8 * 60), PyInt(8 * 60 + 30), PyStr("thirty")}

FindDates == {PyStr("2025-06-24"), PyStr("2025-06-25"), PyStr("tomorrow"), PyNone}

Titles == {PyStr("Sync")}

ScheduleDurations == {PyInt(0), PyInt(30), PyInt(60), PyStr("thirty")}

ScheduleStarts == {PyStr("2025-06-24 08:30"), PyStr("2025-06-24 14:00"),
                   PyStr("2025-06-24 16:30"), PyStr("2025-06-25 09:30"),
                   PyStr("2025-06-24 2:00 PM"), PyStr("2025-06-24")}

NoCall == [op |-> "none"]

(* A successful booking, as its caller knows it. *)
Booking(start_datetime, duration_minutes) ==
    [start |-> StrptimeDateTime(start_datetime).dt, duration |-> duration_minutes.n]

LoopIdle ==
    /\ pc = "AwaitingUser"
    /\ conversation_history = <<>>
    /\ convo = <<>>
    /\ user_input = <<>>
    /\ response_text = <<>>
    /\ function_name = PyNone
    /\ function_args = PyNone
    /\ tool_result = [status |-> "none"]
    /\ spoken = <<>>
    /\ turn = [n |-> 0]

CalInit ==
    /\ events \in {SetToBag(c) : c \in InitialCalendars}
    /\ calTz \in TzOffsets
    /\ lastCall = NoCall
    /\ booked = EmptyBag
    /\ LoopIdle

CallFind(duration_minutes, date_str, env) ==
    LET o == find_available_slots(duration_minutes, date_str, events, calTz, env)
    IN  /\ lastCall = NoCall
        /\ events' = o.store
        /\ lastCall' = [op |-> "find_available_slots",
                        duration_minutes |-> duration_minutes,
                        date_str |-> date_str, env |-> env,
                        result |-> o.result, busy |-> o.busy, calls |-> o.calls]
        /\ UNCHANGED <<calTz, booked, loopVars>>

CallSchedule(title, duration_minutes, start_datetime, env) ==
    LET o == schedule_meeting(title, duration_minutes, start_datetime, PyStr(""),
                              events, calTz, env)
    IN  /\ lastCall = NoCall
        /\ BagCardinality(booked) < MaxBookings
        /\ events' = o.store
        /\ lastCall' = [op |-> "schedule_meeting",
                        duration_minutes |-> duration_minutes,
                        start_datetime |-> start_datetime,
                        result |-> o.result, calls |-> o.calls]
        /\ booked' = IF o.result.status = "success"
                     THEN booked (+) SetToBag({Booking(start_datetime, duration_minutes)})
                     ELSE booked
        /\ UNCHANGED <<calTz, loopVars>>

(* The caller has read the result and is ready for its next call. *)
Return ==
    /\ lastCall # NoCall
    /\ lastCall' = NoCall
    /\ UNCHANGED <<events, calTz, booked, loopVars>>

CalNext ==
    \/ \E d \in FindDurations, date \in FindDates, env \in Envs :
           CallFind(d, date, env)
    \/ \E title \in Titles, d \in ScheduleDurations, start \in ScheduleStarts,
          env \in Envs :
           CallSchedule(title, d, start, env)
    \/ Return

SpecCal == CalInit /\ [][CalNext]_vars

-----------------------------------------------------------------------------
(* Text.  A Python string is the sequence of its tokens: prose words,      *)
(* whitespace, the punctuation and literals of JSON, and the JSON text of  *)
(* a dumped value.                                                         *)

W(w)    == [k |-> "word", w |-> w]
SP      == [k |-> "space"]
LB      == [k |-> "{"]
RB      == [k |-> "}"]
COLON   == [k |-> ":"]
COMMA   == [k |-> ","]
S(s)    == [k |-> "string", s |-> s]
N(n)    == [k |-> "number", n |-> n]
NullTok == [k |-> "null"]
Dumped(v) == [k |-> "json", v |-> v]

(* str.strip() *)
RECURSIVE Strip(_)
Strip(text) ==
    IF text = <<>> THEN text
    ELSE IF Head(text).k = "space" THEN Strip(Tail(text))
    ELSE IF text[Len(text)].k = "space" THEN Strip(SubSeq(text, 1, Len(text) - 1))
    ELSE text

(* str.lower() of the words that have upper-case letters. *)
LowerWord(w) ==
    CASE w = "Exit" -> "exit"
      [] w = "STOP" -> "stop"
      [] OTHER -> w

Lower(text) ==
    [i \in 1..Len(text) |->
        IF text[i].k = "word" THEN W(LowerWord(text[i].w)) ELSE text[i]]

(* needle in text, for the two needles the loop looks for. *)
Contains(text, needle) ==
    \E i \in 1..Len(text) :
        \/ text[i].k = needle
        \/ text[i].k \in {"word", "string"} /\ needle = "tool_call"
             /\ (IF text[i].k = "word" THEN text[i].w ELSE text[i].s) = "tool_call"

(* str.find: the 0-based index of the first occurrence, or -1. *)
PyFind(text, needle) ==
    IF \E i \in 1..Len(text) : text[i].k = needle
    THEN (CHOOSE i \in 1..Len(text) :
              /\ text[i].k = needle
              /\ \A j \in 1..(i - 1) : text[j].k # needle) - 1
    ELSE 0 - 1

(* str.rfind: the 0-based index of the last occurrence, or -1. *)
PyRFind(text, needle) ==
    IF \E i \in 1..Len(text) : text[i].k = needle
    THEN (CHOOSE i \in 1..Len(text) :
              /\ text[i].k = needle
              /\ \A j \in (i + 1)..Len(text) : text[j].k # needle) - 1
    ELSE 0 - 1

(* text[from:to] for 0-based from, to >= 0. *)
PySlice(text, from, to) == SubSeq(text, from + 1, Min(to, Len(text)))

-----------------------------------------------------------------------------
(* json.loads over the tokens: objects, strings, numbers and null.  The    *)
(* whole input must be one value; anything else is a JSONDecodeError.      *)

EmptyDict == [x \in {} |-> PyNone]

JsonFail == [ok |-> FALSE, v |-> PyNone, next |-> 0]

RECURSIVE ParseValue(_, _)
RECURSIVE ParseMembers(_, _, _)
RECURSIVE AfterMember(_, _, _, _)

ParseValue(toks, i) ==
    IF i > Len(toks) THEN JsonFail
    ELSE CASE toks[i].k = "string" -> [ok |-> TRUE, v |-> PyStr(toks[i].s), next |-> i + 1]
           [] toks[i].k = "number" -> [ok |-> TRUE, v |-> PyInt(toks[i].n), next |-> i + 1]
           [] toks[i].k = "null"   -> [ok |-> TRUE, v |-> PyNone, next |-> i + 1]
           [] toks[i].k = "{" ->
                IF i + 1 <= Len(toks) /\ toks[i + 1].k = "}"
                THEN [ok |-> TRUE, v |-> PyDict(EmptyDict), next |-> i + 2]
                ELSE ParseMembers(toks, i + 1, EmptyDict)
           [] OTHER -> JsonFail

(* After the member key : r of an object: a comma and the next member, or  *)
(* the closing brace.                                                      *)
AfterMember(toks, key, r, acc) ==
    IF ~r.ok THEN JsonFail
    ELSE IF r.next <= Len(toks) /\ toks[r.next].k = ","
    THEN ParseMembers(toks, r.next + 1, (key :> r.v) @@ acc)
    ELSE IF r.next <= Len(toks) /\ toks[r.next].k = "}"
    THEN [ok |-> TRUE, v |-> PyDict((key :> r.v) @@ acc), next |-> r.next + 1]
    ELSE JsonFail

(* The members of an object from token i on; the value of a member is      *)
(* parsed once and handed on.                                              *)
ParseMembers(toks, i, acc) ==
    IF i + 1 <= Len(toks) /\ toks[i].k = "string" /\ toks[i + 1].k = ":"
    THEN CHOOSE out \in {AfterMember(toks, toks[i].s, r, acc) :
                            r \in {ParseValue(toks, i + 2)}} : TRUE
    ELSE JsonFail

JsonLoads(toks) ==
    LET r == ParseValue(toks, 1)
    IN  IF r.ok /\ r.next = Len(toks) + 1 THEN [ok |-> TRUE, v |-> r.v]
        ELSE [ok |-> FALSE, v |-> PyNone]

(* v[key]: a KeyError on a dict without the key, a TypeError on a value    *)
(* that is no dict.                                                        *)
Subscript(v, key) ==
    IF v.t = "dict"
    THEN IF key \in DOMAIN v.d THEN [exc |-> "none", v |-> v.d[key]]
         ELSE [exc |-> "KeyError", v |-> PyNone]
    ELSE [exc |-> "TypeError", v |-> PyNone]

(* named: function_name was assigned before the exception, if any. *)
Parsed(exc, named, name, args) ==
    [exc |-> exc, named |-> named, name |-> name, args |-> args]

(* function_name and function_args out of tool_call_data. *)
Invocation(tool_call_data) ==
    LET tool_call == Subscript(tool_call_data.v, "tool_call")
        name      == Subscript(tool_call.v, "name")
        arguments == Subscript(tool_call.v, "arguments")
    IN  IF ~tool_call_data.ok THEN Parsed("JSONDecodeError", FALSE, PyNone, PyNone)
        ELSE IF tool_call.exc # "none" THEN Parsed(tool_call.exc, FALSE, PyNone, PyNone)
        ELSE IF name.exc # "none" THEN Parsed(name.exc, FALSE, PyNone, PyNone)
        ELSE IF arguments.exc # "none" THEN Parsed(arguments.exc, TRUE, name.v, PyNone)
        ELSE Parsed("none", TRUE, name.v, arguments.v)

(* The extraction of the tool call from response_text: json_start,         *)
(* json_end, json_str, tool_call_data, function_name, function_args; each  *)
(* of json_str and tool_call_data is computed once.                        *)
ParseToolCall(text) ==
    LET json_start == PyFind(text, "{")
        json_end   == PyRFind(text, "}") + 1
    IN  CHOOSE parsed \in
            {Invocation(tool_call_data) :
                tool_call_data \in
                    {JsonLoads(json_str) :
                        json_str \in {PySlice(text, json_start, json_end)}}} : TRUE

-----------------------------------------------------------------------------
(* A call that unpacks function_args into keyword arguments: a TypeError   *)
(* when function_args is no mapping, names a parameter the function does   *)
(* not have, or leaves a required one out.                                 *)
BindsTo(required, optional, args) ==
    /\ args.t = "dict"
    /\ DOMAIN args.d \subseteq (required \cup optional)
    /\ required \subseteq DOMAIN args.d

Raised(exc, store) == [raised |-> TRUE, exc |-> exc,
                       out |-> Outcome(ErrorResult(exc), store, <<>>, {})]

Returned(outcome) == [raised |-> FALSE, exc |-> "none", out |-> outcome]

(* A dispatch without the final else: whatever is not find_available_slots *)
(* goes to schedule_meeting.                                               *)
ToolDispatchNoElse(name, args, store, tz, env) ==
    IF name = PyStr("find_available_slots")
    THEN IF BindsTo({"duration_minutes", "date_str"}, {}, args)
         THEN Returned(find_available_slots(args.d["duration_minutes"],
                                            args.d["date_str"], store, tz, env))
         ELSE Raised("TypeError", store)
    ELSE IF BindsTo({"title", "duration_minutes", "start_datetime"},
                    {"description"}, args)
         THEN Returned(schedule_meeting(
                  args.d["title"], args.d["duration_minutes"],
                  args.d["start_datetime"],
                  IF "description" \in DOMAIN args.d THEN args.d["description"]
                  ELSE PyStr(""),
                  store, tz, env))
         ELSE Raised("TypeError", store)

(* The if / elif / else over function_name. *)
ToolDispatch(name, args, store, tz, env) ==
    IF name = PyStr("find_available_slots")
    THEN IF BindsTo({"duration_minutes", "date_str"}, {}, args)
         THEN Returned(find_available_slots(args.d["duration_minutes"],
                                            args.d["date_str"], store, tz, env))
         ELSE Raised("TypeError", store)
    ELSE IF name = PyStr("schedule_meeting")
    THEN IF BindsTo({"title", "duration_minutes", "start_datetime"},
                    {"description"}, args)
         THEN Returned(schedule_meeting(
                  args.d["title"], args.d["duration_minutes"],
                  args.d["start_datetime"],
                  IF "description" \in DOMAIN args.d THEN args.d["description"]
                  ELSE PyStr(""),
                  store, tz, env))
         ELSE Raised("TypeError", store)
    ELSE Returned(Outcome(ErrorResult("Unknown tool."), store, <<>>, {}))

-----------------------------------------------------------------------------
(* main(): the conversation loop. *)

SystemPrompt == <<W("SYSTEM_PROMPT")>>
Greeting     == <<W("Hello!")>>
Goodbye      == <<W("Goodbye!")>>

(* A list of exit words without "exit" and "stop". *)
ExitWordsShort == {<<W("quit")>>, <<W("goodbye")>>}

ExitWords == {<<W("exit")>>, <<W("quit")>>, <<W("goodbye")>>, <<W("stop")>>}

(* {"role": role, "parts": [text]} *)
TurnOf(role, text) == [role |-> role, parts |-> <<text>>]

(* f"TOOL_RESPONSE: {tool_result}" *)
ToolResponse(result) == <<W("TOOL_RESPONSE: "), Dumped(result)>>

(* An append that files every turn under the user role. *)
AppendTurnAsUser(history, role, text) == Append(history, TurnOf("user", text))

(* conversation_history.append(...) *)
AppendTurn(history, role, text) == Append(history, TurnOf(role, text))

(* What listen_for_input returns: the recognised text, or None. *)
Heard(text) == [some |-> TRUE, text |-> text]
Nothing     == [some |-> FALSE, text |-> <<>>]

(* An ordinary utterance that has an exit word in it. *)
BookRequest == <<W("book"), W("a"), W("meeting"), W("then"), W("stop")>>

Utterances == {Nothing, Heard(<<>>), Heard(<<W("Exit")>>), Heard(<<W("STOP")>>),
               Heard(BookRequest)}

(* The texts the language model may answer with. *)
ToolCallText(name, arguments) ==
    <<LB, S("tool_call"), COLON, LB, S("name"), COLON, name, COMMA,
      S("arguments"), COLON>> \o arguments \o <<RB, RB>>

FindArgs(duration, date) ==
    <<LB, S("duration_minutes"), COLON, duration, COMMA,
      S("date_str"), COLON, date, RB>>

ScheduleArgs(title, duration, start) ==
    <<LB, S("title"), COLON, title, COMMA, S("duration_minutes"), COLON, duration,
      COMMA, S("start_datetime"), COLON, start, RB>>

PlainText == <<W("Which"), W("day?")>>
MarkerOnlyText == <<W("tool_call"), W("later")>>
FindCall ==
    <<W("Sure!")>>
        \o ToolCallText(S("find_available_slots"), FindArgs(N(30), S("2025-06-24")))
        \o <<W("One"), W("moment.")>>
ScheduleCall ==
    ToolCallText(S("schedule_meeting"),
                 ScheduleArgs(S("Sync"), N(30), S("2025-06-24 14:00"))) \o <<SP>>
UnknownCall == ToolCallText(S("cancel_meeting"), <<LB, RB>>)
WrongKeysCall ==
    ToolCallText(S("find_available_slots"),
                 <<LB, S("duration"), COLON, N(30), COMMA,
                   S("date"), COLON, S("2025-06-24"), RB>>)
NonMappingCall == ToolCallText(S("schedule_meeting"), <<NullTok>>)
BadDateCall ==
    ToolCallText(S("find_available_slots"), FindArgs(N(30), S("tomorrow")))
BadStartCall ==
    ToolCallText(S("schedule_meeting"),
                 ScheduleArgs(S("Sync"), N(30), S("2025-06-24 2:00 PM")))
NotObjectCall == <<LB, S("tool_call"), COLON, S("find_available_slots"), RB>>
NoKeyText == <<W("tool_call"), LB, S("name"), COLON, S("find_available_slots"), RB>>
NoNameCall == <<LB, S("tool_call"), COLON, LB, S("arguments"), COLON, LB, RB, RB, RB>>
NoArgumentsCall ==
    <<LB, S("tool_call"), COLON, LB, S("name"), COLON, S("find_available_slots"),
      RB, RB>>
UnclosedCall == <<LB, S("tool_call"), COLON>>
GarbledCall == <<LB, S("tool_call"), COLON, W("oops"), RB>>

ModelOutputs ==
    {PlainText, MarkerOnlyText, FindCall, ScheduleCall, UnknownCall, WrongKeysCall,
     NonMappingCall, BadDateCall, BadStartCall, NotObjectCall, NoKeyText,
     NoNameCall, NoArgumentsCall, UnclosedCall, GarbledCall}

PlainSummary == <<W("Done.")>>

SummaryOutputs == {PlainSummary, ScheduleCall}

(* The calendars a conversation may start from. *)
LoopCalendars ==
    { {},
      {Event(PyStr("Standup"), At(Day0, 9, 15), At(Day0, 9, 45)),
       Event(PyStr("Review"), At(Day0, 10, 0), At(Day0, 11, 0))} }

FreshTurn(n, base, utterance) ==
    [n |-> n, base |-> base, utterance |-> utterance,
     responded |-> FALSE, detected |-> FALSE,
     executed |-> FALSE, branch |-> "none", exc |-> "none", requests |-> <<>>,
     modelCalls |-> 0, toolRuns |-> 0, speaks |-> 0]

Init ==
    /\ events \in {SetToBag(c) : c \in LoopCalendars}
    /\ calTz \in TzOffsets
    /\ pc = "AwaitingUser"
    /\ conversation_history =
           <<TurnOf("user", SystemPrompt), TurnOf("model", Greeting)>>
    /\ convo = <<>>
    /\ user_input = Nothing
    /\ response_text = <<>>
    /\ function_name = PyNone
    /\ function_args = PyNone
    /\ tool_result = [status |-> "none"]
    /\ spoken = <<Greeting>>
    /\ turn = FreshTurn(0, 2, <<>>)
    /\ lastCall = NoCall
    /\ booked = EmptyBag

(* if not user_input: continue *)
ListenNothing(heard) ==
    /\ pc = "AwaitingUser"
    /\ ~heard.some \/ heard.text = <<>>
    /\ user_input' = heard
    /\ UNCHANGED <<events, calTz, pc, conversation_history, convo, response_text,
                   function_name, function_args, tool_result, spoken, turn,
                   lastCall, booked>>

(* An exit word: the goodbye is spoken and the loop is left. *)
ListenExit(heard) ==
    /\ pc = "AwaitingUser"
    /\ heard.some /\ heard.text # <<>>
    /\ Lower(heard.text) \in ExitWords
    /\ user_input' = heard
    /\ spoken' = Append(spoken, Goodbye)
    /\ pc' = "Exited"
    /\ UNCHANGED <<events, calTz, conversation_history, convo, response_text,
                   function_name, function_args, tool_result, turn, lastCall, booked>>

(* Any other utterance is appended and goes to the model. *)
ListenUtterance(heard) ==
    /\ pc = "AwaitingUser"
    /\ heard.some /\ heard.text # <<>>
    /\ Lower(heard.text) \notin ExitWords
    /\ turn.n < MaxTurns
    /\ user_input' = heard
    /\ conversation_history' = AppendTurn(conversation_history, "user", heard.text)
    /\ turn' = FreshTurn(turn.n + 1, Len(conversation_history), heard.text)
    /\ pc' = "ModelGenerating"
    /\ UNCHANGED <<events, calTz, convo, response_text, function_name,
                   function_args, tool_result, spoken, lastCall, booked>>

(* convo = model.start_chat(history=conversation_history);                 *)
(* response = convo.send_message(user_input); response.text.strip()        *)
Generate(text) ==
    /\ pc = "ModelGenerating"
    /\ convo' = conversation_history
                    \o <<TurnOf("user", user_input.text), TurnOf("model", text)>>
    /\ response_text' = Strip(text)
    /\ turn' = [turn EXCEPT !.responded = TRUE, !.modelCalls = @ + 1]
    /\ pc' = "ModelResponded"
    /\ UNCHANGED <<events, calTz, conversation_history, user_input, function_name,
                   function_args, tool_result, spoken, lastCall, booked>>

(* The test that sends response_text to the extraction. *)
LooksLikeToolCall(text) == Contains(text, "tool_call") /\ Contains(text, "{")

(* A reply that overwrites the last turn instead of appending. *)
ReplyHistoryOverwrite(history, text) ==
    Append(SubSeq(history, 1, Len(history) - 1), TurnOf("model", text))

(* speak_response(response_text) and the append of the model turn, in the  *)
(* else branch and in the except branch alike.                             *)
ReplyHistory(history, text) == AppendTurn(history, "model", text)

Reply(branch) ==
    /\ spoken' = Append(spoken, response_text)
    /\ conversation_history' = ReplyHistory(conversation_history, response_text)
    /\ turn' = [turn EXCEPT !.branch = branch, !.speaks = @ + 1]
    /\ pc' = "AwaitingUser"

(* else: no tool call, just respond normally. *)
PlainReply ==
    /\ pc = "ModelResponded"
    /\ ~LooksLikeToolCall(response_text)
    /\ Reply("plain")
    /\ UNCHANGED <<events, calTz, convo, user_input, response_text, function_name,
                   function_args, tool_result, lastCall, booked>>

(* except (json.JSONDecodeError, KeyError): treat as a normal response.    *)
(* function_name is already assigned when it is the arguments that are     *)
(* missing.                                                                *)
FallbackReply ==
    /\ pc = "ModelResponded"
    /\ LooksLikeToolCall(response_text)
    /\ ParseToolCall(response_text).exc \in {"JSONDecodeError", "KeyError"}
    /\ Reply("fallback")
    /\ function_name' = IF ParseToolCall(response_text).named
                        THEN ParseToolCall(response_text).name
                        ELSE function_name
    /\ UNCHANGED <<events, calTz, convo, user_input, response_text, function_args,
                   tool_result, lastCall, booked>>

(* An exception of the extraction that the except clause does not name     *)
(* leaves main().                                                          *)
ParseRaises ==
    /\ pc = "ModelResponded"
    /\ LooksLikeToolCall(response_text)
    /\ ParseToolCall(response_text).exc \notin {"none", "JSONDecodeError", "KeyError"}
    /\ turn' = [turn EXCEPT !.exc = ParseToolCall(response_text).exc]
    /\ pc' = "Crashed"
    /\ UNCHANGED <<events, calTz, conversation_history, convo, user_input,
                   response_text, function_name, function_args, tool_result,
                   spoken, lastCall, booked>>

(* The extraction succeeded: function_name and function_args are set. *)
DetectTool ==
    /\ pc = "ModelResponded"
    /\ LooksLikeToolCall(response_text)
    /\ ParseToolCall(response_text).exc = "none"
    /\ function_name' = ParseToolCall(response_text).name
    /\ function_args' = ParseToolCall(response_text).args
    /\ turn' = [turn EXCEPT !.detected = TRUE]
    /\ pc' = "ToolDetected"
    /\ UNCHANGED <<events, calTz, conversation_history, convo, user_input,
                   response_text, tool_result, spoken, lastCall, booked>>

(* 4. Execute the tool: tool_result is the JSON the tool returned. *)
ExecuteTool(env) ==
    LET d == ToolDispatch(function_name, function_args, events, calTz, env)
    IN  /\ pc = "ToolDetected"
        /\ ~d.raised
        /\ tool_result' = d.out.result
        /\ events' = d.out.store
        /\ booked' = IF function_name = PyStr("schedule_meeting")
                        /\ d.out.result.status = "success"
                     THEN booked (+) SetToBag({Booking(function_args.d["start_datetime"],
                                                       function_args.d["duration_minutes"])})
                     ELSE booked
        /\ turn' = [turn EXCEPT !.executed = TRUE, !.requests = d.out.calls,
                                !.toolRuns = @ + 1]
        /\ pc' = "ToolExecuting"
        /\ UNCHANGED <<calTz, conversation_history, convo, user_input, response_text,
                       function_name, function_args, spoken, lastCall>>

(* The call of the tool raises before the tool's own try is entered: the   *)
(* exception is none of those the loop catches and leaves main().          *)
ExecuteRaises(env) ==
    LET d == ToolDispatch(function_name, function_args, events, calTz, env)
    IN  /\ pc = "ToolDetected"
        /\ d.raised
        /\ turn' = [turn EXCEPT !.exc = d.exc]
        /\ pc' = "Crashed"
        /\ UNCHANGED <<events, calTz, conversation_history, convo, user_input,
                       response_text, function_name, function_args, tool_result,
                       spoken, lastCall, booked>>

(* 5. Send tool result back to the model: the raw output and the           *)
(* TOOL_RESPONSE are appended and the TOOL_RESPONSE is sent to the chat.   *)
FeedResult ==
    /\ pc = "ToolExecuting"
    /\ conversation_history' =
           AppendTurn(AppendTurn(conversation_history, "model", response_text),
                      "user", ToolResponse(tool_result))
    /\ convo' = Append(convo, TurnOf("user", ToolResponse(tool_result)))
    /\ pc' = "ModelSummarizing"
    /\ UNCHANGED <<events, calTz, user_input, response_text, function_name,
                   function_args, tool_result, spoken, turn, lastCall, booked>>

(* A loop that takes final_response for a new response_text and scans it. *)
SummarizeRescanning(text) ==
    /\ pc = "ModelSummarizing"
    /\ convo' = Append(convo, TurnOf("model", text))
    /\ response_text' = Strip(text)
    /\ turn' = [turn EXCEPT !.modelCalls = @ + 1]
    /\ pc' = "ModelResponded"
    /\ UNCHANGED <<events, calTz, conversation_history, user_input, function_name,
                   function_args, tool_result, spoken, lastCall, booked>>

(* final_response arrives: it is spoken and appended. *)
Summarize(text) ==
    /\ pc = "ModelSummarizing"
    /\ convo' = Append(convo, TurnOf("model", text))
    /\ spoken' = Append(spoken, text)
    /\ conversation_history' = AppendTurn(conversation_history, "model", text)
    /\ turn' = [turn EXCEPT !.branch = "tool", !.speaks = @ + 1, !.modelCalls = @ + 1]
    /\ pc' = "AwaitingUser"
    /\ UNCHANGED <<events, calTz, user_input, response_text, function_name,
                   function_args, tool_result, lastCall, booked>>

Next ==
    \/ \E heard \in Utterances : ListenNothing(heard)
    \/ \E heard \in Utterances : ListenExit(heard)
    \/ \E heard \in Utterances : ListenUtterance(heard)
    \/ \E text \in ModelOutputs : Generate(text)
    \/ PlainReply
    \/ FallbackReply
    \/ ParseRaises
    \/ DetectTool
    \/ \E env \in Envs : ExecuteTool(env)
    \/ \E env \in Envs : ExecuteRaises(env)
    \/ FeedResult
    \/ \E text \in SummaryOutputs : Summarize(text)

Spec == Init /\ [][Next]_vars

(* The steps main() takes on its own once an utterance is in: every        *)
(* collaborator call in them is a blocking call that returns.              *)
TurnSteps ==
    \/ \E text \in ModelOutputs : Generate(text)
    \/ PlainReply
    \/ FallbackReply
    \/ ParseRaises
    \/ DetectTool
    \/ \E env \in Envs : ExecuteTool(env)
    \/ \E env \in Envs : ExecuteRaises(env)
    \/ FeedResult
    \/ \E text \in SummaryOutputs : Summarize(text)

SpecFair == Init /\ [][Next]_vars /\ WF_vars(TurnSteps)

-----------------------------------------------------------------------------
(* parse_time_to_24hour.  Here a string is the sequence of its characters; *)
(* the date is carried as one piece.                                       *)

DigitChars == <<"0", "1", "2", "3", "4", "5", "6", "7", "8", "9">>

IsDigit(c) == \E d \in 1..10 : DigitChars[d] = c

DigitValue(c) == (CHOOSE d \in 1..10 : DigitChars[d] = c) - 1

(* str.strip() *)
RECURSIVE StripChars(_)
StripChars(cs) ==
    IF cs = <<>> THEN cs
    ELSE IF Head(cs) = " " THEN StripChars(Tail(cs))
    ELSE IF cs[Len(cs)] = " " THEN StripChars(SubSeq(cs, 1, Len(cs) - 1))
    ELSE cs

(* str.upper() *)
UpperChar(c) ==
    CASE c = "a" -> "A"
      [] c = "p" -> "P"
      [] c = "m" -> "M"
      [] c = "x" -> "X"
      [] OTHER -> c

Upper(cs) == [i \in 1..Len(cs) |-> UpperChar(cs[i])]

(* sub in cs *)
HasSub(cs, sub) ==
    \E i \in 1..(Len(cs) - Len(sub) + 1) : SubSeq(cs, i, i + Len(sub) - 1) = sub

(* cs.replace(sub, '') *)
RECURSIVE Remove(_, _)
Remove(cs, sub) ==
    IF Len(cs) < Len(sub) THEN cs
    ELSE IF SubSeq(cs, 1, Len(sub)) = sub
    THEN Remove(SubSeq(cs, Len(sub) + 1, Len(cs)), sub)
    ELSE <<Head(cs)>> \o Remove(Tail(cs), sub)

(* cs.split(sep) *)
RECURSIVE Split(_, _)
Split(cs, sep) ==
    IF \E i \in 1..Len(cs) : cs[i] = sep
    THEN LET i == CHOOSE k \in 1..Len(cs) :
                      cs[k] = sep /\ \A j \in 1..(k - 1) : cs[j] # sep
         IN  <<SubSeq(cs, 1, i - 1)>> \o Split(SubSeq(cs, i + 1, Len(cs)), sep)
    ELSE <<cs>>

RECURSIVE DecimalValue(_)
DecimalValue(cs) ==
    IF cs = <<>> THEN 0
    ELSE DecimalValue(SubSeq(cs, 1, Len(cs) - 1)) * 10 + DigitValue(cs[Len(cs)])

(* int(cs): blanks around the number and a sign before it are accepted; a  *)
(* ValueError otherwise.                                                   *)
PyIntOf(cs) ==
    LET t      == StripChars(cs)
        signed == t # <<>> /\ t[1] \in {"+", "-"}
        body   == IF signed THEN Tail(t) ELSE t
    IN  IF body = <<>> \/ \E i \in 1..Len(body) : ~IsDigit(body[i])
        THEN [ok |-> FALSE, n |-> 0]
        ELSE [ok |-> TRUE,
              n |-> IF signed /\ t[1] = "-" THEN 0 - DecimalValue(body)
                    ELSE DecimalValue(body)]

RECURSIVE Decimal(_)
Decimal(n) ==
    IF n < 10 THEN <<DigitChars[n + 1]>>
    ELSE Decimal(n \div 10) \o <<DigitChars[(n % 10) + 1]>>

(* f"{n:02d}": at least two characters, the sign among them. *)
Format02d(n) ==
    IF n < 0 THEN <<"-">> \o Decimal(0 - n)
    ELSE IF n < 10 THEN <<"0">> \o Decimal(n)
    ELSE Decimal(n)

(* An adjustment that adds 12 to every PM hour. *)
AdjustHourAlways(hour, has_pm, has_am) ==
    IF has_pm THEN hour + 12
    ELSE IF has_am /\ hour = 12 THEN 0
    ELSE hour

(* The hour of a time with a suffix: +12 for PM unless it is 12, 0 for     *)
(* 12 AM.                                                                  *)
AdjustHour(hour, has_pm, has_am) ==
    IF has_pm /\ hour # 12 THEN hour + 12
    ELSE IF has_am /\ hour = 12 THEN 0
    ELSE hour

(* time_str is a Python value, date_str a piece of text; the result is     *)
(* None or the string f"{date_str} {hour:02d}:{minute:02d}".               *)
parse_time_to_24hour(time_str, date_str) ==
    LET upper     == Upper(StripChars(time_str.s))
        has_am    == HasSub(upper, <<"A", "M">>)
        has_pm    == HasSub(upper, <<"P", "M">>)
        time_part == IF has_am \/ has_pm
                     THEN StripChars(Remove(Remove(upper, <<"A", "M">>), <<"P", "M">>))
                     ELSE upper
        parts     == Split(time_part, ":")
        hour      == PyIntOf(parts[1])
        minute    == PyIntOf(parts[2])
    IN  IF time_str.t # "str" THEN PyNone
        ELSE IF Len(parts) # 2 THEN PyNone
        ELSE IF ~hour.ok \/ ~minute.ok THEN PyNone
        ELSE PyStr(<<date_str, " ">>
                       \o Format02d(IF has_am \/ has_pm
                                    THEN AdjustHour(hour.n, has_pm, has_am)
                                    ELSE hour.n)
                       \o <<":">> \o Format02d(minute.n))

-----------------------------------------------------------------------------
(* parse_time_to_24hour called on time expressions drawn from a bounded    *)
(* set.  An expression is kept together with what it says: the hour and    *)
(* minute written in it and its suffix.                                    *)

TwoDigits(n) == <<DigitChars[(n \div 10) + 1], DigitChars[(n % 10) + 1]>>

ClockHours == {0, 1, 2, 9, 11, 12, 13, 23, 24, 25}

ClockMinutes == {0, 5, 30, 59, 60, 99}

(* The ways a suffix is written: none, spaced, glued, lower case. *)
SuffixStyles ==
    {[suffix |-> "", chars |-> <<>>],
     [suffix |-> "AM", chars |-> <<" ", "A", "M">>],
     [suffix |-> "PM", chars |-> <<" ", "P", "M">>],
     [suffix |-> "AM", chars |-> <<"a", "m">>],
     [suffix |-> "PM", chars |-> <<" ", "p", "m", " ">>]}

ClockExpression(hour, minute, style) ==
    [time_str |-> PyStr((IF style.suffix = "" THEN TwoDigits(hour) ELSE Decimal(hour))
                            \o <<":">> \o TwoDigits(minute) \o style.chars),
     kind |-> "clock", hour |-> hour, minute |-> minute, suffix |-> style.suffix]

OtherExpression(kind, time_str) ==
    [time_str |-> time_str, kind |-> kind, hour |-> 0, minute |-> 0, suffix |-> ""]

TimeExpressions ==
    {ClockExpression(h, m, st) : h \in ClockHours, m \in ClockMinutes, st \in SuffixStyles}
    \cup
    {OtherExpression("negative", PyStr(<<"-", "1", ":", "3", "0">>)),
     OtherExpression("negative", PyStr(<<"1", ":", "-", "5">>)),
     OtherExpression("negative", PyStr(<<"-", "2", ":", "0", "0", " ", "P", "M">>)),
     OtherExpression("nonnumeric", PyStr(<<"x", "x", ":", "m", "m">>)),
     OtherExpression("nonnumeric", PyStr(<<"n", "o", "t", "-", "a", "-", "t", "i", "m", "e">>)),
     OtherExpression("nonnumeric", PyStr(<<"x", ":", "3", "0", " ", "P", "M">>)),
     OtherExpression("other", PyStr(<<"2", " ", "P", "M">>)),
     OtherExpression("other", PyStr(<<"1", ":", "3", "0", ":", "0", "0">>)),
     OtherExpression("other", PyStr(<<>>)),
     OtherExpression("other", PyStr(<<" ", "7", ":", " ", "5", " ">>)),
     OtherExpression("other", PyNone)}

TimeDates == {"2025-06-24", "2025-06-25"}

TimeInit ==
    /\ events = EmptyBag
    /\ calTz \in {0}
    /\ lastCall = NoCall
    /\ booked = EmptyBag
    /\ LoopIdle

CallParseTime(expression, date_str) ==
    /\ lastCall = NoCall
    /\ lastCall' = [op |-> "parse_time_to_24hour",
                    expression |-> expression,
                    date_str |-> date_str,
                    result |-> parse_time_to_24hour(expression.time_str, date_str)]
    /\ UNCHANGED <<events, calTz, booked, loopVars>>

TimeNext ==
    \/ \E expression \in TimeExpressions, date_str \in TimeDates :
           CallParseTime(expression, date_str)
    \/ Return

SpecTime == TimeInit /\ [][TimeNext]_vars

\* ==== PROPERTIES ====
-----------------------------------------------------------------------------
(* Reading a result of find_available_slots back. *)

(* The naive datetime a returned candidate names in its "datetime" field. *)
SlotStart(slot) ==
    slot.datetime[1] * (24 * 60) + slot.datetime[2] * 60 + slot.datetime[3]

FindReturned == lastCall # NoCall /\ lastCall.op = "find_available_slots"

FindSucceeded == FindReturned /\ lastCall.result.status = "success"

(* The scan ran: the call ended with one of the scan's two outcomes. *)
FindScanned ==
    FindReturned /\ lastCall.result.status \in {"success", "no_slots"}

CandidateStarts ==
    [i \in 1..Len(lastCall.result.available_slots) |->
        SlotStart(lastCall.result.available_slots[i])]

QueryDay == DateTable[lastCall.date_str.s]

QueryDuration == lastCall.duration_minutes.n

WindowOpen == QueryDay * (24 * 60) + 9 * 60

WindowClose == QueryDay * (24 * 60) + 17 * 60

SpansOverlap(a_start, a_end, b_start, b_end) ==
    (IF a_start > b_start THEN a_start ELSE b_start)
        < (IF a_end < b_end THEN a_end ELSE b_end)

(* C1: every candidate of a successful find_available_slots spans          *)
(* [start, start + duration) without overlapping any interval of the busy  *)
(* set the call scanned against.                                           *)
C1_CandidatesAvoidBusy ==
    FindSucceeded =>
        \A i \in DOMAIN CandidateStarts : \A b \in lastCall.busy :
            ~SpansOverlap(CandidateStarts[i], CandidateStarts[i] + QueryDuration,
                          b[1], b[2])

(* A successful query on a day with a busy interval inside the window that *)
(* made the scan pass over 09:00.                                          *)
C1_Witness ==
    /\ FindSucceeded
    /\ QueryDuration > 0
    /\ \E b \in lastCall.busy :
           SpansOverlap(WindowOpen, WindowOpen + QueryDuration, b[1], b[2])
    /\ CandidateStarts[1] > WindowOpen

(* C2: once schedule_meeting has reported success for a start on date D,   *)
(* no later successful find_available_slots for D returns a candidate      *)
(* whose span overlaps the booked span.                                    *)
C2_BookingExcluded ==
    FindSucceeded =>
        \A b \in BagToSet(booked) :
            (b.start \div (24 * 60) = QueryDay) =>
                \A i \in DOMAIN CandidateStarts :
                    ~SpansOverlap(CandidateStarts[i],
                                  CandidateStarts[i] + QueryDuration,
                                  b.start, b.start + b.duration)

(* C8: with an empty busy set and a duration of at most the window's       *)
(* length, the query succeeds and its first candidate is 09:00.            *)
C8_EmptyDayStartsAtOpen ==
    (FindScanned /\ lastCall.busy = {} /\ QueryDuration <= 17 * 60 - 9 * 60) =>
        /\ lastCall.result.status = "success"
        /\ Len(lastCall.result.available_slots) >= 1
        /\ CandidateStarts[1] = WindowOpen
        /\ lastCall.result.available_slots[1].time_24h = <<9, 0>>

(* A query for exactly the window's length on a day without busy slots. *)
C8_Witness ==
    /\ FindSucceeded
    /\ lastCall.busy = {}
    /\ QueryDuration = 17 * 60 - 9 * 60
    /\ CandidateStarts = <<WindowOpen>>

(* The intervals of a busy set together cover [from, to). *)
Covers(busy, from, to) ==
    \A m \in from..(to - 1) : \E b \in busy : b[1] <= m /\ m < b[2]

(* C9: a busy set that covers the whole working window yields no_slots,    *)
(* whatever the duration.                                                  *)
C9_FullDayNoSlots ==
    (FindScanned /\ Covers(lastCall.busy, WindowOpen, WindowClose)) =>
        lastCall.result.status = "no_slots"

(* C10: a successful candidate list has 1 to 6 entries, strictly           *)
(* increasing, each on the 30-minute grid from 09:00 and ending by 17:00.  *)
C10_CandidateListShape ==
    FindSucceeded =>
        /\ Len(CandidateStarts) >= 1
        /\ Len(CandidateStarts) <= 6
        /\ \A i \in DOMAIN CandidateStarts : \A j \in DOMAIN CandidateStarts :
               i < j => CandidateStarts[i] < CandidateStarts[j]
        /\ \A i \in DOMAIN CandidateStarts :
               /\ CandidateStarts[i] >= WindowOpen
               /\ (CandidateStarts[i] - WindowOpen) % 30 = 0
               /\ CandidateStarts[i] + QueryDuration <= WindowClose

(* A list cut at six although the scan had further free positions, on a    *)
(* day whose busy slots made it skip a grid position in between.           *)
C10_Witness ==
    /\ FindSucceeded
    /\ Len(CandidateStarts) = 6
    /\ CandidateStarts[6] + 30 + QueryDuration <= WindowClose
    /\ CandidateStarts[6] - CandidateStarts[1] > 5 * 30
    /\ \A b \in lastCall.busy :
           ~SpansOverlap(CandidateStarts[6] + 30,
                         CandidateStarts[6] + 30 + QueryDuration, b[1], b[2])

-----------------------------------------------------------------------------
(* Reading the conversation back. *)

IsPrefix(a, b) == Len(a) <= Len(b) /\ SubSeq(b, 1, Len(a)) = a

(* The turns appended since the utterance being processed was heard. *)
Added == SubSeq(conversation_history, turn.base + 1, Len(conversation_history))

(* The processing of an utterance has ended, one way or another. *)
TurnOver == turn.n >= 1 /\ pc \in {"AwaitingUser", "Exited", "Crashed"}

RecognizedTool ==
    function_name \in {PyStr("find_available_slots"), PyStr("schedule_meeting")}

(* C3: the transcript is append-only: every step of the loop leaves the    *)
(* previous conversation_history as a prefix of the new one.               *)
C3_AppendOnly == [][IsPrefix(conversation_history, conversation_history')]_vars

(* A conversation that has been through a tool turn and a fallback turn. *)
C3_Witness ==
    /\ pc = "AwaitingUser"
    /\ turn.n = 2
    /\ turn.branch = "fallback"
    /\ Len(conversation_history) = 2 + 4 + 2

(* C4: every processed utterance adds, in order, user(utterance),          *)
(* model(raw output), user(TOOL_RESPONSE + result), model(summary) when a  *)
(* tool call was detected, and user(utterance), model(raw output) when     *)
(* none was.                                                               *)
C4_TurnsPerUtterance ==
    TurnOver =>
        IF turn.detected
        THEN Added = <<TurnOf("user", turn.utterance),
                       TurnOf("model", response_text),
                       TurnOf("user", ToolResponse(tool_result)),
                       TurnOf("model", convo[Len(convo)].parts[1])>>
        ELSE Added = <<TurnOf("user", turn.utterance),
                       TurnOf("model", response_text)>>

(* The same shape for the utterances whose processing came back to         *)
(* AwaitingUser: it is only the exception leaving main() that breaks it.   *)
CompletedTurnShape == (pc # "Crashed") => C4_TurnsPerUtterance

(* C5: a parsed invocation of a recognized tool always yields a result     *)
(* object with status success, no_slots or error; the loop is never left   *)
(* by an exception of the tool's execution.                                *)
C5_ToolExecutionYieldsResult ==
    (turn.detected /\ RecognizedTool /\ pc # "ToolDetected") =>
        /\ pc # "Crashed"
        /\ turn.executed
        /\ tool_result.status \in {"success", "no_slots", "error"}

(* The text from the first "{" to the last "}". *)
BraceSpan(text) ==
    LET opens  == {i \in 1..Len(text) : text[i].k = "{"}
        closes == {i \in 1..Len(text) : text[i].k = "}"}
    IN  IF opens = {} \/ closes = {} THEN <<>>
        ELSE SubSeq(text, CHOOSE i \in opens : \A j \in opens : i <= j,
                          CHOOSE i \in closes : \A j \in closes : j <= i)

(* A decoded value without a tool_call.name / tool_call.arguments pair. *)
LacksPair(v) ==
    ~(/\ v.t = "dict"
      /\ "tool_call" \in DOMAIN v.d
      /\ v.d["tool_call"].t = "dict"
      /\ {"name", "arguments"} \subseteq DOMAIN v.d["tool_call"].d)

(* The marker and a "{" are there, but no tool invocation can be read. *)
MalformedCall(text) ==
    /\ \E i \in 1..Len(text) :
           \/ text[i].k = "word" /\ text[i].w = "tool_call"
           \/ text[i].k = "string" /\ text[i].s = "tool_call"
    /\ \E i \in 1..Len(text) : text[i].k = "{"
    /\ \/ ~JsonLoads(BraceSpan(text)).ok
       \/ LacksPair(JsonLoads(BraceSpan(text)).v)

(* C6: an output with the marker and a "{" from which no invocation can be *)
(* read is treated as plain text: no tool runs, the output is spoken and   *)
(* appended as one model turn, and the loop is back in AwaitingUser.       *)
C6_MalformedCallIsPlainText ==
    (turn.responded /\ pc # "ModelResponded" /\ MalformedCall(response_text)) =>
        /\ pc \in {"AwaitingUser", "Exited"}
        /\ ~turn.executed
        /\ turn.speaks = 1
        /\ Added = <<TurnOf("user", turn.utterance),
                     TurnOf("model", response_text)>>

(* C7: an invocation that names no known tool touches no calendar, gets an *)
(* error result, which is appended as the TOOL_RESPONSE turn and           *)
(* summarized, and the loop is back in AwaitingUser.                       *)
UnknownToolStep ==
    /\ (pc = "ToolDetected" /\ ~RecognizedTool) =>
           /\ pc' = "ToolExecuting"
           /\ tool_result'.status = "error"
           /\ turn'.requests = <<>>
           /\ events' = events
    /\ (pc = "ToolExecuting" /\ ~RecognizedTool) =>
           /\ pc' = "ModelSummarizing"
           /\ conversation_history' =
                  conversation_history
                      \o <<TurnOf("model", response_text),
                           TurnOf("user", ToolResponse(tool_result))>>
           /\ events' = events
    /\ (pc = "ModelSummarizing" /\ ~RecognizedTool) =>
           /\ pc' = "AwaitingUser"
           /\ Len(spoken') = Len(spoken) + 1
           /\ conversation_history' =
                  Append(conversation_history,
                         TurnOf("model", spoken'[Len(spoken')]))
           /\ events' = events

C7_UnknownToolIsErrorResult == [][UnknownToolStep]_vars

(* A turn for an unknown tool that has come back to AwaitingUser. *)
C7_Witness ==
    /\ pc = "AwaitingUser"
    /\ turn.branch = "tool"
    /\ ~RecognizedTool
    /\ tool_result = [status |-> "error", message |-> "Unknown tool."]
    /\ turn.requests = <<>>
    /\ Added[3] = TurnOf("user", ToolResponse(tool_result))

-----------------------------------------------------------------------------
(* The outcome of find_available_slots against its inputs. *)

(* The date argument is a string of the form %Y-%m-%d. *)
WellFormedDate(v) == v.t = "str" /\ v.s \in {"2025-06-24", "2025-06-25"}

(* The events the list request for the day returns: those of the store     *)
(* that meet 09:00-17:00 of that day, read as UTC.                         *)
ListedFor(day) ==
    {e \in BagToSet(events) :
        e.end > day * (24 * 60) + 9 * 60 /\ e.start < day * (24 * 60) + 17 * 60}

(* The positions of the cursor: 09:00 + k * 30 min with cursor + duration  *)
(* <= 17:00.                                                               *)
GridPositions(day, duration) ==
    {c \in {day * (24 * 60) + 9 * 60 + k * 30 : k \in 0..32} :
        c + duration <= day * (24 * 60) + 17 * 60}

(* The positions whose span overlaps no busy interval. *)
FreePositions(day, duration, busy) ==
    {c \in GridPositions(day, duration) :
        \A b \in busy : ~SpansOverlap(c, c + duration, b[1], b[2])}

(* The collaborator failed in this call: no service, or the list request   *)
(* that was made raised.                                                   *)
CollaboratorFailed ==
    \/ ~lastCall.env.auth
    \/ ~lastCall.env.api /\ WellFormedDate(lastCall.date_str)

(* C11: find_available_slots always returns one of its three results:      *)
(* error when the date is malformed, a listed timestamp is unparsable or   *)
(* the collaborator fails; otherwise, for an integer duration, no_slots    *)
(* exactly when no cursor position is free and success exactly when one    *)
(* is.                                                                     *)
C11_TriStateResult ==
    FindReturned =>
        /\ lastCall.result.status \in {"success", "no_slots", "error"}
        /\ (lastCall.result.status = "error") => "message" \in DOMAIN lastCall.result
        /\ ~WellFormedDate(lastCall.date_str) => lastCall.result.status = "error"
        /\ CollaboratorFailed => lastCall.result.status = "error"
        /\ (WellFormedDate(lastCall.date_str)
               /\ \E e \in ListedFor(QueryDay) : e.timed /\ ~e.iso)
              => lastCall.result.status = "error"
        /\ (lastCall.result.status = "no_slots") <=>
               /\ FindScanned
               /\ FreePositions(QueryDay, QueryDuration, lastCall.busy) = {}
        /\ (lastCall.result.status = "success") <=>
               /\ FindScanned
               /\ FreePositions(QueryDay, QueryDuration, lastCall.busy) # {}

(* A query with a well-formed date and a working collaborator that met a   *)
(* timestamp it could not parse and returned the error result.             *)
C11_Witness ==
    /\ FindReturned
    /\ WellFormedDate(lastCall.date_str)
    /\ ~CollaboratorFailed
    /\ \E e \in ListedFor(QueryDay) : e.timed /\ ~e.iso
    /\ lastCall.result.status = "error"
    /\ "message" \in DOMAIN lastCall.result

-----------------------------------------------------------------------------
(* Leaving the loop. *)

(* The utterance is, up to case, exactly one of the four exit words. *)
IsExitUtterance(text) ==
    /\ Len(text) = 1
    /\ text[1].k = "word"
    /\ text[1].w \in {"exit", "Exit", "quit", "goodbye", "stop", "STOP"}

ExitStep ==
    /\ (pc = "AwaitingUser" /\ user_input'.some /\ IsExitUtterance(user_input'.text)) =>
           /\ pc' = "Exited"
           /\ conversation_history' = conversation_history
           /\ convo' = convo
           /\ turn' = turn
           /\ events' = events
           /\ tool_result' = tool_result
    /\ (pc = "Exited") => UNCHANGED vars
    /\ (pc' = "Exited") => (pc = "AwaitingUser" /\ IsExitUtterance(user_input'.text))

(* C12: an exit word heard in AwaitingUser ends the session: the           *)
(* transcript, the chat, the calendar and the turn's counters are left as  *)
(* they are, and nothing happens after it; nothing else ends the session   *)
(* this way.                                                               *)
C12_ExitEndsSession == [][ExitStep]_vars

(* A session ended by "Exit" in capitals after an utterance that has an    *)
(* exit word among others was processed as an ordinary utterance.          *)
C12_Witness ==
    /\ pc = "Exited"
    /\ user_input = Heard(<<W("Exit")>>)
    /\ turn.n = 1
    /\ turn.utterance = BookRequest
    /\ turn.modelCalls = 1
    /\ Len(conversation_history) = 4

-----------------------------------------------------------------------------
(* Progress of a turn. *)

(* Back in AwaitingUser after an utterance: one text was spoken for it,    *)
(* the summary if a tool ran and the raw model output otherwise.           *)
SpokenOnce ==
    (pc = "AwaitingUser" /\ turn.n >= 1) =>
        /\ turn.speaks = 1
        /\ spoken[Len(spoken)] =
               (IF turn.executed THEN convo[Len(convo)].parts[1] ELSE response_text)
        /\ conversation_history[Len(conversation_history)] =
               TurnOf("model", spoken[Len(spoken)])

(* C13: with collaborators that return, every utterance that is handed to  *)
(* the model brings the loop back to AwaitingUser, and once it is back     *)
(* exactly one text has been spoken for it.                                *)
C13_TurnReturnsSpokenOnce ==
    /\ (pc = "ModelGenerating") ~> (pc = "AwaitingUser")
    /\ []SpokenOnce

(* The same with the exception that leaves main() as a second way out: it  *)
(* is the only thing that keeps a turn from coming back.                   *)
TurnReturnsOrRaises ==
    /\ (pc = "ModelGenerating") ~> (pc \in {"AwaitingUser", "Crashed"})
    /\ []SpokenOnce

-----------------------------------------------------------------------------
(* The result of parse_time_to_24hour against the expression. *)

ParseReturned == lastCall # NoCall /\ lastCall.op = "parse_time_to_24hour"

(* date + " " + HH + ":" + MM, zero-padded. *)
Canonical(date_str, hh, mm) ==
    [t |-> "str", s |-> <<date_str, " ">> \o TwoDigits(hh) \o <<":">> \o TwoDigits(mm)]

(* The hour or the minute written in a clock expression is out of range. *)
OutOfRange(e) ==
    /\ e.kind = "clock"
    /\ \/ e.minute > 59
       \/ e.suffix = "" /\ e.hour > 23
       \/ e.suffix # "" /\ (e.hour < 1 \/ e.hour > 12)

InRange(e) == e.kind = "clock" /\ ~OutOfRange(e)

(* The hour of the day an in-range expression names. *)
HourOfDay(e) ==
    IF e.suffix = "" THEN e.hour
    ELSE IF e.hour = 12 THEN (IF e.suffix = "AM" THEN 0 ELSE 12)
    ELSE IF e.suffix = "PM" THEN e.hour + 12
    ELSE e.hour

(* C14: parse_time_to_24hour returns None for an expression whose hour or  *)
(* minute is out of range, negative or not a number, and every string it   *)
(* returns has an hour in 00..23 and a minute in 00..59.                   *)
C14_OutOfRangeIsNone ==
    ParseReturned =>
        /\ (OutOfRange(lastCall.expression)
               \/ lastCall.expression.kind \in {"negative", "nonnumeric"})
              => lastCall.result = [t |-> "null"]
        /\ (lastCall.result # [t |-> "null"]) =>
               \E hh \in 0..23, mm \in 0..59 :
                   lastCall.result = Canonical(lastCall.date_str, hh, mm)

(* The part of it that the code does keep: an expression that is not a     *)
(* number gives None.                                                      *)
NonNumericIsNone ==
    (ParseReturned /\ lastCall.expression.kind = "nonnumeric") =>
        lastCall.result = [t |-> "null"]

(* C15: an in-range expression, 12-hour with AM or PM or bare 24-hour,     *)
(* gives date + " " + HH:MM of the hour of the day it names.               *)
C15_InRangeIsCanonical ==
    (ParseReturned /\ InRange(lastCall.expression)) =>
        lastCall.result = Canonical(lastCall.date_str,
                                    HourOfDay(lastCall.expression),
                                    lastCall.expression.minute)

(* "2:00 PM" on 2025-06-24 has given "2025-06-24 14:00". *)
C15_Witness ==
    /\ ParseReturned
    /\ lastCall.expression.time_str =
           [t |-> "str", s |-> <<"2", ":", "0", "0", " ", "P", "M">>]
    /\ lastCall.date_str = "2025-06-24"
    /\ lastCall.result =
           [t |-> "str", s |-> <<"2025-06-24", " ", "1", "4", ":", "0", "0">>]

-----------------------------------------------------------------------------
(* The candidate list against the free positions of the grid. *)

FreeNow == FreePositions(QueryDay, QueryDuration, lastCall.busy)

(* starts is, in chronological order, the earliest positions of free, six  *)
(* of them or all if there are fewer.                                      *)
EarliestOf(starts, free) ==
    /\ Len(starts) = (IF Cardinality(free) < 6 THEN Cardinality(free) ELSE 6)
    /\ \A i \in DOMAIN starts : starts[i] \in free
    /\ \A i \in DOMAIN starts : \A j \in DOMAIN starts :
           i < j => starts[i] < starts[j]
    /\ \A f \in free :
           (\A i \in DOMAIN starts : starts[i] # f) =>
               \A i \in DOMAIN starts : starts[i] < f

(* C16: the returned candidates are exactly the first min(6, n) of the n   *)
(* free cursor positions, in chronological order; no free position before *)
(* a returned one is left out.                                             *)
C16_FirstSixFreePositions ==
    FindScanned =>
        IF lastCall.result.status = "success"
        THEN EarliestOf(CandidateStarts, FreeNow)
        ELSE FreeNow = {}

(* More than six free positions, with a busy one among the first six       *)
(* returned.                                                               *)
C16_Witness ==
    /\ FindSucceeded
    /\ QueryDuration > 0
    /\ Cardinality(FreeNow) > 6
    /\ Len(CandidateStarts) = 6
    /\ \E g \in GridPositions(QueryDay, QueryDuration) :
           g \notin FreeNow /\ CandidateStarts[1] < g /\ g < CandidateStarts[6]

-----------------------------------------------------------------------------
(* Tool executions and model calls per utterance. *)

IsToolResponse(t) ==
    /\ t.role = "user"
    /\ t.parts[1] # <<>>
    /\ t.parts[1][1] = [k |-> "word", w |-> "TOOL_RESPONSE: "]

(* The tool executions of the session so far: one per TOOL_RESPONSE turn,  *)
(* and the one whose result is not yet appended.                           *)
ToolExecutions ==
    Cardinality({i \in DOMAIN conversation_history :
                    IsToolResponse(conversation_history[i])})
        + (IF pc = "ToolExecuting" THEN 1 ELSE 0)

AtMostOneToolPerUtterance ==
    /\ turn.toolRuns <= 1
    /\ turn.modelCalls <= 2
    /\ (turn.modelCalls = 2) => (turn.toolRuns = 1)
    /\ ToolExecutions <= turn.n

(* The summary ends the turn whatever its text is. *)
SummaryNotScanned ==
    (pc = "ModelSummarizing") =>
        /\ pc' = "AwaitingUser"
        /\ turn'.toolRuns = turn.toolRuns
        /\ events' = events
        /\ tool_result' = tool_result

(* C17: per utterance at most one tool is executed and at most two model   *)
(* calls are made, the second only after a tool; the summary is not        *)
(* scanned for a tool call; the session's tool executions never exceed     *)
(* its processed utterances.                                               *)
C17_OneToolPerUtterance ==
    /\ []AtMostOneToolPerUtterance
    /\ [][SummaryNotScanned]_vars

(* A turn that ran find_available_slots and whose summary was itself a     *)
(* well-formed schedule_meeting call: nothing was booked.                  *)
C17_Witness ==
    /\ pc = "AwaitingUser"
    /\ turn.branch = "tool"
    /\ function_name = [t |-> "str", s |-> "find_available_slots"]
    /\ conversation_history[Len(conversation_history)] =
           [role |-> "model", parts |-> <<ScheduleCall>>]
    /\ turn.toolRuns = 1
    /\ turn.modelCalls = 2
    /\ booked = EmptyBag

-----------------------------------------------------------------------------
(* What the model is given. *)

(* The contents the chat sent to the model for the response it has just    *)
(* returned: all it holds but the response.                                *)
ModelInput == SubSeq(convo, 1, Len(convo) - 1)

(* C18: the input of the generation for an utterance is exactly the        *)
(* transcript at that moment, with the utterance once, as its last turn.   *)
C18_ModelInputIsTranscript ==
    (pc = "ModelResponded") =>
        /\ ModelInput = conversation_history
        /\ ModelInput[Len(ModelInput)] = [role |-> "user", parts |-> <<turn.utterance>>]
        /\ Cardinality({i \in (turn.base + 1)..Len(ModelInput) :
                           ModelInput[i].parts = <<turn.utterance>>}) = 1

(* What it is given instead: the transcript, which already ends with the   *)
(* utterance, followed by the utterance once more.                         *)
ModelInputRepeatsUtterance ==
    (pc = "ModelResponded") =>
        ModelInput = Append(conversation_history,
                            [role |-> "user", parts |-> <<turn.utterance>>])

-----------------------------------------------------------------------------
(* The roles of the transcript. *)

Alternates(history) ==
    \A i \in DOMAIN history :
        history[i].role = (IF i % 2 = 1 THEN "user" ELSE "model")

(* C19: whenever the loop awaits the user (or has been left by an exit     *)
(* word) the transcript has even length, its roles alternate user, model,  *)
(* ... from the system prompt on, and its last turn is a model turn.       *)
C19_RolesAlternate ==
    (pc \in {"AwaitingUser", "Exited"}) =>
        /\ Len(conversation_history) % 2 = 0
        /\ Len(conversation_history) >= 2
        /\ conversation_history[1] = [role |-> "user", parts |-> <<SystemPrompt>>]
        /\ Alternates(conversation_history)
        /\ conversation_history[Len(conversation_history)].role = "model"

(* A parse-fallback turn followed by a tool turn, both completed. *)
C19_Witness ==
    /\ pc = "AwaitingUser"
    /\ turn.n = 2
    /\ turn.branch = "tool"
    /\ Len(conversation_history) = 2 + 2 + 4
    /\ conversation_history[4] = [role |-> "model", parts |-> <<NoArgumentsCall>>]
    /\ IsToolResponse(conversation_history[7])

-----------------------------------------------------------------------------
(* What changes the calendar. *)

(* One event [start, start + duration) was added to the store. *)
OneEventAdded(start_datetime, duration_minutes) ==
    \E e \in BagToSet(events') :
        /\ events' = events (+) SetToBag({e})
        /\ BagCardinality(events') = BagCardinality(events) + 1
        /\ e.start = StrptimeDateTime(start_datetime).dt
        /\ e.end = e.start + duration_minutes.n

(* The step is a schedule_meeting, made by the loop or directly, that      *)
(* returns success.                                                        *)
ScheduleSucceeds ==
    \/ /\ pc = "ToolDetected" /\ pc' = "ToolExecuting"
       /\ function_name = [t |-> "str", s |-> "schedule_meeting"]
       /\ tool_result'.status = "success"
    \/ /\ lastCall = NoCall /\ lastCall' # NoCall
       /\ lastCall'.op = "schedule_meeting"
       /\ lastCall'.result.status = "success"

CalendarStep ==
    /\ (events' # events) => ScheduleSucceeds
    /\ ScheduleSucceeds =>
           IF pc = "ToolDetected"
           THEN OneEventAdded(function_args.d["start_datetime"],
                              function_args.d["duration_minutes"])
           ELSE OneEventAdded(lastCall'.start_datetime, lastCall'.duration_minutes)

(* C20: the calendar's events change only in a schedule_meeting that       *)
(* returns success, and then by exactly the one event [start, start +      *)
(* duration); every other step leaves them as they are.                    *)
C20_OnlyBookingChangesCalendar == [][CalendarStep]_vars

(* schedule_meeting has returned success to the loop on a calendar of two  *)
(* events, and the 14:00-14:30 meeting is the third.                       *)
C20_Witness ==
    /\ pc = "ToolExecuting"
    /\ function_name = [t |-> "str", s |-> "schedule_meeting"]
    /\ tool_result.status = "success"
    /\ BagCardinality(events) = 3
    /\ \E e \in BagToSet(events) :
           /\ e.summary = [t |-> "str", s |-> "Sync"]
           /\ e.start = 14 * 60
           /\ e.end = 14 * 60 + 30

====
